---- MODULE Spec2Model ----
(***************************************************************************)
(* State-machine model of the LangSense dashboard client:                  *)
(*   - HistoryManager    (src/static/js/history.js, lines 6-386)           *)
(*   - StatisticsManager (src/static/js/history.js, lines 393-651)         *)
(* JavaScript runs handlers to completion on one thread; an async function *)
(* is suspended at each await.  loadHistory is the synchronous prefix up   *)
(* to `await fetch` and the resumptions after it.  The resumption between  *)
(* `await fetch` and `await response.json()` reads and writes locals only, *)
(* so the two awaits are one suspension of the model, which ends in one of *)
(* three ways: fetch rejects, json() rejects, or json() gives an envelope. *)
(*                                                                         *)
(* Strings are sequences of one-character strings.  Time is counted in     *)
(* whole hours since the epoch (UTC); a day is 24 hours.                   *)
(***************************************************************************)
EXTENDS Integers, Sequences, FiniteSets, TLC

VARIABLES
    \* HistoryManager fields
    currentPage, totalPages, currentFilters, detections,
    \* DOM of the history page
    tableBody, emptyHidden, loadingVisible, prevDisabled, nextDisabled,
    paginationInfo, dailyChart,
    \* environment of the history page
    inflight,       \* suspended loadHistory calls
    issued,         \* number of loadHistory calls made so far
    budget,         \* number of loadHistory calls the behaviour may make
    shapes,         \* the page shapes the backend may answer with
    serverCount,    \* rows the backend had for the query it answered last
    clock, tz,      \* client clock (UTC hours) and UTC offset (hours)
    \* history of the run, kept for stating properties
    lastIssued,     \* parameters of the request issued last
    lastSettled,    \* the loadHistory call that finished last
    lastPagination, \* pagination object applied last, or NoPagination
    lastAction,     \* the user action taken last
    nextCalls,      \* next-page clicks made in the sequential scenario
    \* a function of the program applied on its own
    arg,            \* the input it is applied to
    result,         \* what it gave, or NoResult before it ran
    \* the detection page (LanguageDetectionApp), or NoApp on other pages
    app

histVars == <<currentPage, totalPages, currentFilters, detections,
              tableBody, emptyHidden, loadingVisible, prevDisabled,
              nextDisabled, paginationInfo, dailyChart, inflight, issued,
              budget, shapes, serverCount, clock, tz, lastIssued, lastSettled,
              lastPagination, lastAction, nextCalls>>

\* what a behaviour fixes at its start
config == <<budget, shapes, clock, tz>>

pure == <<arg, result, app>>

vars == <<histVars, pure>>

-----------------------------------------------------------------------------
(* Bounds of the model *)

MaxRequests == 2      \* loadHistory calls per behaviour
MaxSeqRequests == 4   \* the same, in the sequential scenario
MaxBusyRequests == 4  \* the same, where user actions overlap reloads
MaxCountSteps == 2    \* serverCount ranges over 0..MaxCountSteps steps
CountStep == 25       \* rows per step of serverCount
MaxNextCalls == 4     \* next-page clicks in the sequential scenario
ClockBase == 240      \* midnight UTC of the day the model starts in
PageHour == 1         \* hour of that day at which the history page is open
PageTz == 2           \* UTC offset of the client of the history page
MaxTextLen == 103     \* longest input_text previewed on its own
MaxTz == 5            \* client UTC offsets range over -MaxTz..MaxTz hours
MaxChartRecords == 2  \* records charted on their own
MaxLanguages == 3     \* keys of a language distribution
MaxLangCount == 2     \* count of one language of a distribution
MaxRateTotal == 40    \* total_detections of a snapshot whose rate is shown
MaxHighCount == 41    \* count of the first confidence bucket
MaxLowCount == 1      \* count of the fourth and of the fifth bucket
MaxBuckets == 5       \* buckets of a confidence distribution
MaxActivity == 3      \* tuples of a recent_activity list
MaxActivityDates == 2 \* dates of a recent_activity list
MaxActivityCount == 2 \* count of one tuple
MaxDetectCalls == 3   \* calls of detectLanguage in a behaviour
MaxQueryRequests == 3 \* reloads of a behaviour over fixed data

(* Program constants *)

perPage == 20
PreviewLimit == 100
ChartDays == 7

-----------------------------------------------------------------------------
(* Strings *)

Str_Hindi == <<"H", "i", "n", "d", "i">>
Str_English == <<"E", "n", "g", "l", "i", "s", "h">>
Str_Hinglish == <<"H", "i", "n", "g", "l", "i", "s", "h">>
Str_Unknown == <<"U", "n", "k", "n", "o", "w", "n">>
Str_hindi == <<"h", "i", "n", "d", "i">>
Str_english == <<"e", "n", "g", "l", "i", "s", "h">>
Str_hinglish == <<"h", "i", "n", "g", "l", "i", "s", "h">>

Min(a, b) == IF a < b THEN a ELSE b
Max(a, b) == IF a > b THEN a ELSE b

\* String.prototype.toLowerCase, on the letters that occur in the model
LowerChar(c) ==
    CASE c = "H" -> "h"
      [] c = "E" -> "e"
      [] c = "U" -> "u"
      [] c = "I" -> "i"
      [] c = "N" -> "n"
      [] c = "D" -> "d"
      [] c = "G" -> "g"
      [] c = "L" -> "l"
      [] c = "S" -> "s"
      [] OTHER -> c

toLowerCase(s) == [i \in 1..Len(s) |-> LowerChar(s[i])]

IsSpace(c) == c \in {" ", "\t", "\n"}

\* String.prototype.trim: drop leading and trailing white space
RECURSIVE TrimLeft(_)
TrimLeft(s) ==
    IF s # <<>> /\ IsSpace(Head(s)) THEN TrimLeft(Tail(s)) ELSE s

RECURSIVE TrimRight(_)
TrimRight(s) ==
    IF s # <<>> /\ IsSpace(s[Len(s)])
    THEN TrimRight(SubSeq(s, 1, Len(s) - 1))
    ELSE s

trim(s) == TrimRight(TrimLeft(s))

\* String.prototype.substring(0, n)
substring0(s, n) == SubSeq(s, 1, Min(n, Len(s)))

\* escapeHtml: textContent -> innerHTML escapes &, < and >
EscapeChar(c) ==
    CASE c = "&" -> <<"&", "a", "m", "p", ";">>
      [] c = "<" -> <<"&", "l", "t", ";">>
      [] c = ">" -> <<"&", "g", "t", ";">>
      [] OTHER -> <<c>>

RECURSIVE escapeHtml(_)
escapeHtml(text) ==
    IF text = <<>> THEN <<>>
    ELSE EscapeChar(Head(text)) \o escapeHtml(Tail(text))

-----------------------------------------------------------------------------
(* JavaScript values *)

\* a record of the model is a JavaScript object; a property that is absent
\* (reads as undefined) is absent from the record's DOMAIN
Has(obj, key) == key \in DOMAIN obj

Undefined == [type |-> "undefined"]
Array(items) == [type |-> "array", items |-> items]
IsArray(v) == v.type = "array"

-----------------------------------------------------------------------------
(* Client clock *)

UTCDay(t) == t \div 24                 \* toISOString().split('T')[0]
LocalDay(t) == (t + tz) \div 24        \* calendar day of the client
LocalHour(t) == (t + tz) % 24

-----------------------------------------------------------------------------
(* Backend: GET /api/detection-history/ as section 3 and 6 of the          *)
(* specification describe its answer.                                      *)

CeilDiv(a, b) == (a + b - 1) \div b

ServerPagination(page, per_page, count) ==
    LET pages == CeilDiv(count, per_page) IN
    [current_page |-> page, per_page |-> per_page, total_count |-> count,
     total_pages |-> pages, has_previous |-> page > 1,
     has_next |-> page < pages]

ServerRecord(id, filters) ==
    [id |-> id,
     input_text |-> IF Has(filters, "search") THEN filters.search
                    ELSE <<"h", "i">>,
     detected_language |-> IF Has(filters, "language") THEN filters.language
                           ELSE Str_English,
     confidence |-> 90,
     created_at |-> clock - 24 * (id % 3)]

Without(obj, key) == [k \in DOMAIN obj \ {key} |-> obj[k]]

\* what a page of the answer may look like
PayloadShapes ==
    {"empty", "rows", "noLanguage", "noConfidence", "noCreatedAt", "undefined"}

ServerDetections(page, filters, shape) ==
    LET first == (page - 1) * perPage + 1
        a == ServerRecord(first, filters)
        b == ServerRecord(first + 1, filters)
    IN  CASE shape = "empty" -> Array(<<>>)
          [] shape = "rows" -> Array(<<a, b>>)
          [] shape = "noLanguage" ->
                 Array(<<a, Without(b, "detected_language")>>)
          [] shape = "noConfidence" ->
                 Array(<<Without(a, "confidence"), b>>)
          [] shape = "noCreatedAt" ->
                 Array(<<a, Without(b, "created_at")>>)
          [] OTHER -> Undefined

ServerErrors == {"Invalid page number"}

SuccessEnvelope(req, count, shape) ==
    [success |-> TRUE,
     data |-> [detections |-> ServerDetections(req.page, req.filters, shape),
               pagination |-> ServerPagination(req.page, req.per_page,
                                               count)]]

FailureEnvelope(msg) == [success |-> FALSE, error |-> msg]

Envelopes(req, count) ==
    {SuccessEnvelope(req, count, shape) : shape \in shapes}
        \cup {FailureEnvelope(msg) : msg \in ServerErrors}

-----------------------------------------------------------------------------
(* HistoryManager: rendering *)

\* variant: a text of exactly PreviewLimit characters is cut as well
textPreviewAtLimit(input_text) ==
    IF Len(input_text) >= PreviewLimit
    THEN substring0(input_text, PreviewLimit) \o <<".", ".", ".">>
    ELSE input_text

\* lines 118-120
textPreview(input_text) ==
    IF Len(input_text) > PreviewLimit
    THEN substring0(input_text, PreviewLimit) \o <<".", ".", ".">>
    ELSE input_text

\* lines 126-130: the 'Show full text' button
showFullTextButton(input_text) == Len(input_text) > PreviewLimit

getLanguageBadgeClass(language) ==
    LET l == toLowerCase(language) IN
    CASE l = Str_hindi -> "from-orange-500 to-red-500"
      [] l = Str_english -> "from-blue-500 to-blue-600"
      [] l = Str_hinglish -> "from-green-500 to-emerald-500"
      [] OTHER -> "from-gray-500 to-gray-600"

getLanguageIcon(language) ==
    LET l == toLowerCase(language) IN
    CASE l = Str_hindi -> "fa-om"
      [] l = Str_english -> "fa-english"
      [] l = Str_hinglish -> "fa-globe"
      [] OTHER -> "fa-question"

Null == [type |-> "null"]

String(chars) == [type |-> "string", chars |-> chars]

TypeError == [threw |-> "TypeError"]

\* lines 133-134: the two calls of the row template for one language value;
\* language.toLowerCase() throws a TypeError unless language is a string
\* (lines 223, 236)
languageStyle(language) ==
    IF language.type # "string" THEN TypeError
    ELSE [threw |-> "nothing",
          badge |-> getLanguageBadgeClass(language.chars),
          icon |-> getLanguageIcon(language.chars)]

\* the template of lines 115-170 throws a TypeError when it reads .length or
\* calls .toLowerCase() on undefined
rowThrows(d) == ~Has(d, "input_text") \/ ~Has(d, "detected_language")

renderRow(d) ==
    [id |-> d.id,
     text |-> escapeHtml(textPreview(d.input_text)),
     showFull |-> showFullTextButton(d.input_text),
     badge |-> getLanguageBadgeClass(d.detected_language),
     icon |-> getLanguageIcon(d.detected_language),
     language |-> d.detected_language,
     confidence |-> IF Has(d, "confidence")
                    THEN ToString(d.confidence) \o "%"
                    ELSE "undefined%",
     date |-> IF Has(d, "created_at")
              THEN <<LocalDay(d.created_at), LocalHour(d.created_at)>>
              ELSE <<>>]                       \* "Invalid Date"

RowsBody(rows) == [kind |-> "rows", rows |-> rows]
ErrorBody(message) == [kind |-> "error", message |-> message]
InitialBody == [kind |-> "initial"]

\* the fields a resumed loadHistory reads and writes, as one record;
\* thrown is set while an exception propagates, caught once the catch block
\* has handled one
HState ==
    [currentPage |-> currentPage, totalPages |-> totalPages,
     detections |-> detections, tableBody |-> tableBody,
     emptyHidden |-> emptyHidden, loadingVisible |-> loadingVisible,
     prevDisabled |-> prevDisabled, nextDisabled |-> nextDisabled,
     paginationInfo |-> paginationInfo, dailyChart |-> dailyChart,
     lastPagination |-> lastPagination, thrown |-> FALSE,
     caught |-> FALSE]

Throw(h) == [h EXCEPT !.thrown = TRUE]

displayHistory(h, dets) ==
    IF ~IsArray(dets) THEN Throw(h)
    ELSE IF Len(dets.items) = 0
    THEN [h EXCEPT !.tableBody = RowsBody(<<>>), !.emptyHidden = FALSE]
    ELSE LET h1 == [h EXCEPT !.emptyHidden = TRUE] IN
         IF \E i \in 1..Len(dets.items) : rowThrows(dets.items[i])
         THEN Throw(h1)
         ELSE [h1 EXCEPT !.tableBody =
                  RowsBody([i \in 1..Len(dets.items) |->
                               renderRow(dets.items[i])])]

NoPagination == [type |-> "undefined"]

updatePagination(h, pagination) ==
    [h EXCEPT
        !.prevDisabled = ~pagination.has_previous,
        !.nextDisabled = ~pagination.has_next,
        !.paginationInfo =
            [start |-> (pagination.current_page - 1) * pagination.per_page + 1,
             end |-> Min(pagination.current_page * pagination.per_page,
                         pagination.total_count),
             total |-> pagination.total_count],
        !.totalPages = pagination.total_pages,
        !.lastPagination = pagination]

\* lines 316-322: the keys of the chart, oldest first.  setDate moves the
\* local wall clock back by whole days; toISOString gives the UTC date
last7Days(now) ==
    [k \in 1..ChartDays |->
        UTCDay(((now + tz) - 24 * (ChartDays - k)) - tz)]

\* lines 330-335; dailyCounts[date] for one key
dailyCount(items, date) ==
    Cardinality({i \in 1..Len(items) : UTCDay(items[i].created_at) = date})

\* lines 342-345: labels and data handed to Chart
chartData(items, now) ==
    LET days == last7Days(now) IN
    [k \in 1..ChartDays |->
        [date |-> days[k],
         label |-> LocalDay(24 * days[k]),
         count |-> dailyCount(items, days[k])]]

NoChart == <<>>

createHistoryActivityChart(h, dets) ==
    IF \E i \in 1..Len(dets.items) : ~Has(dets.items[i], "created_at")
    THEN Throw(h)                            \* toISOString: RangeError
    ELSE [h EXCEPT !.dailyChart = chartData(dets.items, clock)]

\* variant: the error also empties the cached page
showErrorAndForget(h, message) ==
    [h EXCEPT !.tableBody = ErrorBody(message),
              !.detections = Array(<<>>)]

showError(h, message) == [h EXCEPT !.tableBody = ErrorBody(message)]

showLoading(h, show) == [h EXCEPT !.loadingVisible = show]

-----------------------------------------------------------------------------
(* HistoryManager.loadHistory *)

FailedToLoad == "Failed to load detection history."
NetworkError == "Network error. Please check your connection."

\* lines 86-91: the success branch
applyData(h, data) ==
    LET h1 == [h EXCEPT !.detections = data.detections]
        h2 == displayHistory(h1, data.detections)
        h3 == IF h2.thrown THEN h2
              ELSE updatePagination(h2, data.pagination)
        h4 == IF h3.thrown THEN h3
              ELSE createHistoryActivityChart(h3, data.detections)
    IN  h4

\* lines 83-94: a settlement is either a rejection of one of the awaited
\* promises or the parsed envelope
applySettlement(h, settlement) ==
    IF settlement.rejected THEN Throw(h)
    ELSE IF settlement.envelope.success
    THEN applyData(h, settlement.envelope.data)
    ELSE showError(h, FailedToLoad)

\* variant: an answer is dropped unless it answers the newest request
tryBlockNewestOnly(h, req, settlement) ==
    IF req.id # issued THEN h ELSE applySettlement(h, settlement)

\* lines 76-94: the try block, resumed for req
tryBlock(h, req, settlement) == applySettlement(h, settlement)

\* lines 95-97
catchBlock(h) ==
    IF h.thrown
    THEN showError([h EXCEPT !.thrown = FALSE, !.caught = TRUE],
                   NetworkError)
    ELSE h

\* lines 98-100
finallyBlock(h) == showLoading(h, FALSE)

\* variant: the indicator is hidden at the end of the try block, not in a
\* finally block
loadHistoryResumeNoFinally(h, req, settlement) ==
    LET t == tryBlock(h, req, settlement) IN
    IF t.thrown THEN catchBlock(t) ELSE showLoading(t, FALSE)

\* the rest of loadHistory once its awaits are over
loadHistoryResume(h, req, settlement) ==
    finallyBlock(catchBlock(tryBlock(h, req, settlement)))

Rejected(why) == [rejected |-> TRUE, why |-> why]
Resolved(envelope) == [rejected |-> FALSE, envelope |-> envelope]

\* how the call ended, for the record of the run; h is the state it left
Outcome(h, settlement) ==
    IF settlement.rejected THEN settlement.why
    ELSE IF ~settlement.envelope.success THEN "failure_envelope"
    ELSE IF h.caught THEN "exception"
    ELSE "applied"

NoSettle == [id |-> 0]

\* lines 77-83: URLSearchParams({page, per_page, ...currentFilters})
Request(id, page, filters) ==
    [id |-> id, page |-> page, per_page |-> perPage, filters |-> filters]

\* variant: a reload is started only when none is in flight
loadHistoryWhenIdle(page, filters) ==
    /\ inflight = {}
    /\ issued < budget
    /\ loadingVisible' = TRUE
    /\ issued' = issued + 1
    /\ inflight' = inflight \cup {Request(issued + 1, page, filters)}
    /\ lastIssued' = [id |-> issued + 1, page |-> page, filters |-> filters]

\* lines 73-83: loadHistory up to `await fetch(...)`
loadHistory(page, filters) ==
    /\ issued < budget
    /\ loadingVisible' = TRUE
    /\ issued' = issued + 1
    /\ inflight' = inflight \cup {Request(issued + 1, page, filters)}
    /\ lastIssued' = [id |-> issued + 1, page |-> page, filters |-> filters]

\* a suspended call is resumed for the last time
settle(req, settlement) ==
    \E h \in {loadHistoryResume(HState, req, settlement)} :
    /\ req \in inflight
    /\ inflight' = inflight \ {req}
    /\ detections' = h.detections
    /\ tableBody' = h.tableBody
    /\ emptyHidden' = h.emptyHidden
    /\ loadingVisible' = h.loadingVisible
    /\ prevDisabled' = h.prevDisabled
    /\ nextDisabled' = h.nextDisabled
    /\ paginationInfo' = h.paginationInfo
    /\ dailyChart' = h.dailyChart
    /\ totalPages' = h.totalPages
    /\ lastPagination' = h.lastPagination
    /\ lastSettled' = [id |-> req.id, page |-> req.page,
                       filters |-> req.filters,
                       outcome |-> Outcome(h, settlement),
                       settlement |-> settlement]
    /\ UNCHANGED <<currentPage, currentFilters, issued, config, lastIssued,
                   lastAction>>

\* line 83: fetch rejects (network failure)
fetchReject(req) ==
    /\ settle(req, Rejected("fetch_rejected"))
    /\ UNCHANGED serverCount

\* line 84: the body is not JSON
jsonReject(req) ==
    /\ settle(req, Rejected("non_json"))
    /\ UNCHANGED serverCount

\* line 84: the body parses to an envelope, which the backend made from
\* the count rows it had for the query
jsonResolve(req, count, envelope) ==
    /\ serverCount' = count
    /\ settle(req, Resolved(envelope))

-----------------------------------------------------------------------------
(* HistoryManager: user actions *)

EmptyFilters == [k \in {} |-> <<>>]

\* values of the #language-filter select and of the #search-filter input
LanguageInputs == {<<>>, Str_Hindi}
SearchInputs == {<<>>, <<" ">>, <<" ", "a", " ">>}

\* variant: line 61 is missing, the keys are set on the previous filters
newFiltersMerged(languageFilter, searchFilter) ==
    LET keys == DOMAIN currentFilters \cup
                {k \in {"language", "search"} :
                    IF k = "language" THEN languageFilter # <<>>
                    ELSE searchFilter # <<>>}
    IN  [k \in keys |->
            IF k = "language"
            THEN (IF languageFilter # <<>> THEN languageFilter
                  ELSE currentFilters[k])
            ELSE (IF searchFilter # <<>> THEN searchFilter
                  ELSE currentFilters[k])]

\* lines 61-67; searchFilter is the trimmed input of line 59
newFilters(languageFilter, searchFilter) ==
    LET keys == {k \in {"language", "search"} :
                    IF k = "language" THEN languageFilter # <<>>
                    ELSE searchFilter # <<>>}
    IN  [k \in keys |-> IF k = "language" THEN languageFilter
                        ELSE searchFilter]

\* line 69
firstPage == 1

Did(kind, acted) ==
    [kind |-> kind, acted |-> acted, pageBefore |-> currentPage,
     filtersBefore |-> currentFilters, issuedBefore |-> issued,
     inflightBefore |-> Cardinality(inflight)]

\* lines 57-71
applyFilters(languageInput, searchInput) ==
    LET f == newFilters(languageInput, trim(searchInput)) IN
    /\ currentFilters' = f
    /\ currentPage' = firstPage
    /\ loadHistory(firstPage, f)
    /\ lastAction' = Did("applyFilters", TRUE)
    /\ UNCHANGED <<totalPages, detections, tableBody, emptyHidden,
                   prevDisabled, nextDisabled, paginationInfo, dailyChart,
                   serverCount, config, lastSettled, lastPagination>>

\* line 43
prevPageGuard == currentPage > 1

\* variant: off by one
nextPageGuardInclusive == currentPage <= totalPages

\* line 50
nextPageGuard == currentPage < totalPages

NoClickEffect ==
    UNCHANGED <<currentPage, loadingVisible, issued, inflight, lastIssued>>

\* lines 42-47: the click listener of #prev-page
prevPageHandler ==
    /\ IF prevPageGuard
       THEN /\ currentPage' = currentPage - 1
            /\ loadHistory(currentPage - 1, currentFilters)
            /\ lastAction' = Did("prevPage", TRUE)
       ELSE /\ NoClickEffect
            /\ lastAction' = Did("prevPage", FALSE)
    /\ UNCHANGED <<totalPages, currentFilters, detections, tableBody,
                   emptyHidden, prevDisabled, nextDisabled, paginationInfo,
                   dailyChart, serverCount, config, lastSettled,
                   lastPagination>>

\* lines 49-54: the click listener of #next-page
nextPageHandler ==
    /\ IF nextPageGuard
       THEN /\ currentPage' = currentPage + 1
            /\ loadHistory(currentPage + 1, currentFilters)
            /\ lastAction' = Did("nextPage", TRUE)
       ELSE /\ NoClickEffect
            /\ lastAction' = Did("nextPage", FALSE)
    /\ UNCHANGED <<totalPages, currentFilters, detections, tableBody,
                   emptyHidden, prevDisabled, nextDisabled, paginationInfo,
                   dailyChart, serverCount, config, lastSettled,
                   lastPagination>>

\* a click on the button; a disabled button dispatches no click event
\* (lines 273-274 disable the buttons)
prevPageClick == ~prevDisabled /\ prevPageHandler

nextPageClick == ~nextDisabled /\ nextPageHandler

\* the backend's data changes between two answers (other clients store
\* detections), and a different query matches a different number of rows
ServerCounts == {k * CountStep : k \in 0..MaxCountSteps}

-----------------------------------------------------------------------------
(* The history page *)

\* lines 7-19 and 383-386: new HistoryManager() on DOMContentLoaded; the
\* constructor ends inside the first loadHistory call.  The markup decides
\* whether the two paging buttons start disabled.
HistoryManager ==
    /\ currentPage = 1
    /\ totalPages = 1
    /\ currentFilters = EmptyFilters
    /\ detections = Undefined
    /\ tableBody = InitialBody
    /\ emptyHidden = TRUE
    /\ loadingVisible = TRUE
    /\ prevDisabled \in BOOLEAN
    /\ nextDisabled \in BOOLEAN
    /\ paginationInfo = [start |-> 0, end |-> 0, total |-> 0]
    /\ dailyChart = NoChart
    /\ inflight = {Request(1, 1, EmptyFilters)}
    /\ issued = 1
    /\ lastIssued = [id |-> 1, page |-> 1, filters |-> EmptyFilters]
    /\ lastSettled = NoSettle
    /\ lastPagination = NoPagination
    /\ lastAction = [kind |-> "construct"]
    /\ nextCalls = 0

NoResult == [type |-> "none"]

NoApp == [page |-> "other"]

\* the page is open at PageHour o'clock UTC, PageTz hours east of UTC, and
\* no function is applied on its own
PageOpen ==
    /\ clock = ClockBase + PageHour
    /\ tz = PageTz
    /\ arg = NoResult
    /\ result = NoResult
    /\ app = NoApp

(* Any interleaving of user actions and answers *)

ApplyFilters(languageInput, searchInput) ==
    applyFilters(languageInput, searchInput) /\ UNCHANGED <<nextCalls, pure>>

PrevPageClick == prevPageClick /\ UNCHANGED <<nextCalls, pure>>

NextPageClick == nextPageClick /\ UNCHANGED <<nextCalls, pure>>

FetchReject(req) == fetchReject(req) /\ UNCHANGED <<nextCalls, pure>>

JsonReject(req) == jsonReject(req) /\ UNCHANGED <<nextCalls, pure>>

JsonResolve(req, count, envelope) ==
    jsonResolve(req, count, envelope) /\ UNCHANGED <<nextCalls, pure>>

Init ==
    /\ HistoryManager
    /\ PageOpen
    /\ budget = MaxRequests
    /\ shapes = {"rows", "undefined"}
    /\ serverCount = 0

Next ==
    \/ \E l \in LanguageInputs, s \in SearchInputs : ApplyFilters(l, s)
    \/ PrevPageClick
    \/ NextPageClick
    \/ \E req \in inflight : FetchReject(req)
    \/ \E req \in inflight : JsonReject(req)
    \/ \E req \in inflight, count \in ServerCounts :
          \E e \in Envelopes(req, count) : JsonResolve(req, count, e)

Spec == Init /\ [][Next]_vars

(* The same, with every page shape the backend may answer with *)

PayloadInit ==
    /\ HistoryManager
    /\ PageOpen
    /\ budget = MaxRequests
    /\ shapes = PayloadShapes
    /\ serverCount = 0

SpecPayload == PayloadInit /\ [][Next]_vars

(* User actions that overlap reloads: more reloads per behaviour, while   *)
(* the backend's data stays as it is, its pages are well formed and the   *)
(* user filters by search text only                                       *)

BusyInit ==
    /\ HistoryManager
    /\ PageOpen
    /\ budget = MaxBusyRequests
    /\ shapes = {"rows"}
    /\ serverCount = MaxCountSteps * CountStep

BusyNext ==
    \/ \E s \in SearchInputs : ApplyFilters(<<>>, s)
    \/ PrevPageClick
    \/ NextPageClick
    \/ \E req \in inflight : FetchReject(req)
    \/ \E req \in inflight : JsonReject(req)
    \/ \E req \in inflight :
          \E e \in Envelopes(req, serverCount) :
              JsonResolve(req, serverCount, e)

SpecBusy == BusyInit /\ [][BusyNext]_vars

(* The sequential scenario: every user action waits for the answer to the *)
(* previous one, and the backend's data does not change.  nextCalls counts *)
(* the clicks on #next-page since page 1 was last loaded and shown; it is  *)
(* Void once the run is no longer such a run of next-page clicks.          *)

Void == 0 - 1

SeqCounts == {0, 20, 21, 45}

Idle == inflight = {}

SeqApplyFilters(languageInput, searchInput) ==
    /\ Idle
    /\ applyFilters(languageInput, searchInput)
    /\ nextCalls' = 0
    /\ UNCHANGED pure

SeqPrevPageClick ==
    /\ Idle
    /\ prevPageClick
    /\ nextCalls' = IF prevPageGuard THEN Void ELSE nextCalls
    /\ UNCHANGED pure

SeqNextPageClick ==
    /\ Idle
    /\ nextCalls < MaxNextCalls
    /\ nextCalls' = IF nextCalls = Void THEN Void ELSE nextCalls + 1
    /\ IF nextDisabled
       THEN UNCHANGED <<currentPage, totalPages, currentFilters, detections,
                        tableBody, emptyHidden, loadingVisible, prevDisabled,
                        nextDisabled, paginationInfo, dailyChart, inflight,
                        issued, serverCount, config, lastIssued, lastSettled,
                        lastPagination, lastAction>>
       ELSE nextPageHandler
    /\ UNCHANGED pure

SeqFetchReject(req) ==
    fetchReject(req) /\ nextCalls' = Void /\ UNCHANGED pure

SeqJsonReject(req) ==
    jsonReject(req) /\ nextCalls' = Void /\ UNCHANGED pure

SeqJsonResolve(req, envelope) ==
    /\ jsonResolve(req, serverCount, envelope)
    /\ nextCalls' = IF lastSettled'.outcome = "applied" THEN nextCalls
                    ELSE Void
    /\ UNCHANGED pure

SeqInit ==
    /\ HistoryManager
    /\ PageOpen
    /\ budget = MaxSeqRequests
    /\ shapes = {"rows", "empty", "undefined"}
    /\ serverCount \in SeqCounts

SeqNext ==
    \/ \E l \in LanguageInputs, s \in SearchInputs : SeqApplyFilters(l, s)
    \/ SeqPrevPageClick
    \/ SeqNextPageClick
    \/ \E req \in inflight : SeqFetchReject(req)
    \/ \E req \in inflight : SeqJsonReject(req)
    \/ \E req \in inflight :
          \E e \in Envelopes(req, serverCount) : SeqJsonResolve(req, e)

SpecSeq == SeqInit /\ [][SeqNext]_vars

(* Reloads that overlap over data that does not change: the number of   *)
(* rows a request matches depends on its filters only                    *)

QueryCount(filters) ==
    IF Has(filters, "search") THEN 0
    ELSE IF Has(filters, "language") THEN CountStep
    ELSE MaxCountSteps * CountStep

QueryInit ==
    /\ HistoryManager
    /\ PageOpen
    /\ budget = MaxQueryRequests
    /\ shapes = {"rows"}
    /\ serverCount = 0

QueryNext ==
    \/ \E l \in LanguageInputs, s \in SearchInputs : ApplyFilters(l, s)
    \/ PrevPageClick
    \/ NextPageClick
    \/ \E req \in inflight : FetchReject(req)
    \/ \E req \in inflight :
          JsonResolve(req, QueryCount(req.filters),
                      SuccessEnvelope(req, QueryCount(req.filters), "rows"))

SpecQuery == QueryInit /\ [][QueryNext]_vars

-----------------------------------------------------------------------------
(* StatisticsManager.displayStatistics *)

\* variant: a later key with the same count replaces the earlier one
exceedsOrEquals(count, maxCount) == count >= maxCount

\* line 432
exceeds(count, maxCount) == count > maxCount

\* lines 428-436, over Object.entries(language_distribution) in iteration
\* order; an entry is [lang, count] for the pair [lang, {count}]
RECURSIVE mostDetectedFrom(_, _, _)
mostDetectedFrom(entries, mostDetected, maxCount) ==
    IF entries = <<>> THEN mostDetected
    ELSE LET e == Head(entries) IN
         IF exceeds(e.count, maxCount)
         THEN mostDetectedFrom(Tail(entries), e.lang, e.count)
         ELSE mostDetectedFrom(Tail(entries), mostDetected, maxCount)

Dash == <<"-">>

mostDetected(language_distribution) ==
    mostDetectedFrom(language_distribution, Dash, 0)

RECURSIVE Sum(_)
Sum(counts) == IF counts = <<>> THEN 0 ELSE Head(counts) + Sum(Tail(counts))

\* line 442
HighBuckets == 4

\* lines 441-443, over Object.values(confidence_distribution)
highConfidenceCount(confidence_distribution) ==
    Sum(SubSeq(confidence_distribution, 1,
               Min(HighBuckets, Len(confidence_distribution))))

\* the nearest integer to the exact quotient n / d for n >= 0, d > 0, halves
\* up: Math.round of a number given in tenths (line 424)
RoundDiv(n, d) == (2 * n + d) \div (2 * d)

(* JavaScript numbers are IEEE 754 binary64.  A positive number is m * 2^e  *)
(* with m a sequence of Precision bits, most significant first, the first  *)
(* of them 1; an operation gives the exact result rounded to the nearest   *)
(* such number, ties to the even significand.  Integers below 2^53 are     *)
(* exact.                                                                  *)

Precision == 53

\* the arithmetic below works on groups of LimbBits bits
LimbBits == 13

Limb == 2 ^ LimbBits

Zero == [m |-> <<>>, e |-> 0]

Zeros(n) == [i \in 1..n |-> 0]

RECURSIVE ValueOf(_)
ValueOf(bits) ==
    IF bits = <<>> THEN 0
    ELSE 2 * ValueOf(SubSeq(bits, 1, Len(bits) - 1)) + bits[Len(bits)]

LimbsToBits(limbs) ==
    [i \in 1..(LimbBits * Len(limbs)) |->
        (limbs[((i - 1) \div LimbBits) + 1]
            \div (2 ^ ((LimbBits - 1) - ((i - 1) % LimbBits)))) % 2]

BitsToLimbs(bits) ==
    LET count == (Len(bits) + LimbBits - 1) \div LimbBits
        padded == Zeros(LimbBits * count - Len(bits)) \o bits
    IN  [j \in 1..count |->
            ValueOf(SubSeq(padded, LimbBits * (j - 1) + 1, LimbBits * j))]

StripZeros(bits) ==
    IF \A i \in 1..Len(bits) : bits[i] = 0 THEN <<>>
    ELSE LET first == CHOOSE i \in 1..Len(bits) :
                          /\ bits[i] = 1
                          /\ \A j \in 1..(i - 1) : bits[j] = 0
         IN  SubSeq(bits, first, Len(bits))

Increment(bits) ==
    IF \A i \in 1..Len(bits) : bits[i] = 1
    THEN <<1>> \o Zeros(Len(bits))
    ELSE LET last == CHOOSE i \in 1..Len(bits) :
                         /\ bits[i] = 0
                         /\ \A j \in (i + 1)..Len(bits) : bits[j] = 1
         IN  [i \in 1..Len(bits) |->
                 IF i < last THEN bits[i] ELSE IF i = last THEN 1 ELSE 0]

\* bits * 2^e plus, when sticky, something below one unit of the last bit,
\* rounded to Precision bits; bits has no leading 0 and is not shorter
roundToNearestEven(bits, e, sticky) ==
    LET kept == SubSeq(bits, 1, Precision)
        rest == SubSeq(bits, Precision + 1, Len(bits))
        guard == IF rest = <<>> THEN 0 ELSE rest[1]
        tail == sticky \/ \E i \in 2..Len(rest) : rest[i] = 1
        up == guard = 1 /\ (tail \/ kept[Precision] = 1)
        r == IF up THEN Increment(kept) ELSE kept
    IN  IF Len(r) > Precision
        THEN [m |-> SubSeq(r, 1, Precision), e |-> e + Len(rest) + 1]
        ELSE [m |-> r, e |-> e + Len(rest)]

\* enough limbs after the binary point for Precision + 1 bits of a quotient
\* that is not below 1 / Limb
FractionLimbs == 6

\* long division of r / t, r < t < 2^18: count limbs of the quotient
RECURSIVE divideLimbs(_, _, _)
divideLimbs(r, t, count) ==
    IF count = 0 THEN [limbs |-> <<>>, r |-> r]
    ELSE LET d == divideLimbs((r * Limb) % t, t, count - 1) IN
         [limbs |-> <<(r * Limb) \div t>> \o d.limbs, r |-> d.r]

\* n / t for naturals n < Limb * t and 0 < t < Limb
fdiv(n, t) ==
    IF n = 0 THEN Zero
    ELSE LET d == divideLimbs(n % t, t, FractionLimbs) IN
         roundToNearestEven(
             StripZeros(LimbsToBits(<<n \div t>> \o d.limbs)),
             0 - LimbBits * FractionLimbs, d.r # 0)

\* limbs times the natural c plus carry, least significant limb last
RECURSIVE timesLimbs(_, _, _)
timesLimbs(limbs, c, carry) ==
    IF limbs = <<>> THEN <<carry>>
    ELSE LET n == Len(limbs)
             p == limbs[n] * c + carry
         IN  Append(timesLimbs(SubSeq(limbs, 1, n - 1), c, p \div Limb),
                    p % Limb)

\* x * c for a natural c < Limb
fmul(x, c) ==
    IF x = Zero \/ c = 0 THEN Zero
    ELSE roundToNearestEven(
             StripZeros(LimbsToBits(timesLimbs(BitsToLimbs(x.m), c, 0))),
             x.e, FALSE)

\* Math.round of x >= 0: the integer part, plus 1 when the fraction is at
\* least one half
mathRound(x) ==
    IF x = Zero THEN 0
    ELSE IF x.e >= 0 THEN ValueOf(x.m \o Zeros(x.e))
    ELSE LET f == 0 - x.e
             bits == Zeros(Max(0, f + 1 - Len(x.m))) \o x.m
             n == Len(bits)
         IN  ValueOf(SubSeq(bits, 1, n - f)) + bits[n - f + 1]

\* line 446
Percent == 100

\* lines 445-447
successRate(stats) ==
    IF stats.total_detections > 0
    THEN mathRound(fmul(fdiv(highConfidenceCount(
                                 stats.confidence_distribution),
                             stats.total_detections), Percent))
    ELSE 0

\* lines 421-449: the text of the four cards; avg_confidence is in tenths
\* of a percent, and toLocaleString only groups the digits of the total
displayStatistics(stats) ==
    [total |-> stats.total_detections,
     avg |-> RoundDiv(stats.avg_confidence, 10),
     most_detected |-> mostDetected(stats.language_distribution),
     success_rate |-> successRate(stats)]

-----------------------------------------------------------------------------
(* StatisticsManager.createActivityChart.  The object `days` is a sequence *)
(* of [date, row] in the order the keys were added, which is the order of  *)
(* Object.keys for keys like "2024-01-05"; a row is a function from its    *)
(* keys to counts.  Dates are day numbers.                                 *)

ChartedLanguages == {Str_Hindi, Str_English, Str_Hinglish}

\* line 569
NewRow == [language \in ChartedLanguages |-> 0]

\* line 571: row[key] = value
SetKey(row, key, value) ==
    [k \in DOMAIN row \cup {key} |-> IF k = key THEN value ELSE row[k]]

\* variant: every tuple starts a row of its own
knownDateNever(days, date) == FALSE

\* line 568
knownDate(days, date) == \E i \in 1..Len(days) : days[i].date = date

\* lines 566-572
RECURSIVE groupByDate(_, _)
groupByDate(items, days) ==
    IF items = <<>> THEN days
    ELSE LET item == Head(items)
             started == IF knownDate(days, item.created_at__date) THEN days
                        ELSE Append(days, [date |-> item.created_at__date,
                                           row |-> NewRow])
             last == CHOOSE i \in 1..Len(started) :
                         /\ started[i].date = item.created_at__date
                         /\ \A j \in (i + 1)..Len(started) :
                                started[j].date # item.created_at__date
         IN  groupByDate(Tail(items),
                 [started EXCEPT ![last].row =
                     SetKey(@, item.detected_language, item.count)])

\* lines 562-602: the object `days`, the labels and the data of the three
\* datasets handed to Chart
createActivityChart(recentActivity) ==
    LET days == groupByDate(recentActivity, <<>>) IN
    [days |-> days,
     labels |-> [i \in 1..Len(days) |-> days[i].date],
     English |-> [i \in 1..Len(days) |-> days[i].row[Str_English]],
     Hindi |-> [i \in 1..Len(days) |-> days[i].row[Str_Hindi]],
     Hinglish |-> [i \in 1..Len(days) |-> days[i].row[Str_Hinglish]]]

-----------------------------------------------------------------------------
(* Functions applied on their own.  The history page is as constructed and *)
(* stays so.                                                               *)

Untouched ==
    /\ HistoryManager
    /\ budget = 0
    /\ shapes = {}
    /\ serverCount = 0
    /\ result = NoResult
    /\ app = NoApp

(* previews of a text: lines 118-130 *)

Alphabet == <<"a", "<", " ">>

Text(n, stride) ==
    [i \in 1..n |-> Alphabet[((i * stride) % Len(Alphabet)) + 1]]

PreviewTexts == {Text(n, stride) : n \in 0..MaxTextLen, stride \in 1..2}

PreviewInit ==
    /\ Untouched
    /\ clock = ClockBase + PageHour
    /\ tz = PageTz
    /\ arg \in PreviewTexts

Preview ==
    /\ result = NoResult
    /\ result' = [preview |-> textPreview(arg),
                  truncated |-> showFullTextButton(arg),
                  html |-> escapeHtml(textPreview(arg))]
    /\ UNCHANGED <<histVars, arg, app>>

SpecPreview == PreviewInit /\ [][Preview]_vars

(* the daily-activity chart of a page of records: lines 311-335 *)

Hours == 0..23
Offsets == (0 - MaxTz)..MaxTz
StampAges == {0, 6, 30, 150, 170}

Stamped(ages) ==
    Array([i \in 1..Len(ages) |->
              [ServerRecord(i, EmptyFilters) EXCEPT
                  !.created_at = clock - ages[i]]])

AgeLists == UNION {[1..n -> StampAges] : n \in 0..MaxChartRecords}

ChartInit ==
    /\ Untouched
    /\ clock \in {ClockBase + hour : hour \in Hours}
    /\ tz \in Offsets
    /\ arg \in {Stamped(ages) : ages \in AgeLists}

Chart ==
    /\ result = NoResult
    /\ result' = createHistoryActivityChart(HState, arg).dailyChart
    /\ UNCHANGED <<histVars, arg, app>>

SpecChart == ChartInit /\ [][Chart]_vars

(* the cards of a statistics snapshot: lines 421-449 *)

Languages == {Str_English, Str_Hindi, Str_Hinglish, Str_Unknown}

Injective(f) == \A i, j \in DOMAIN f : f[i] = f[j] => i = j

KeyOrders ==
    {keys \in UNION {[1..n -> Languages] : n \in 0..MaxLanguages} :
        Injective(keys)}

Distributions ==
    UNION {{[i \in 1..Len(keys) |-> [lang |-> keys[i], count |-> counts[i]]] :
               counts \in [1..Len(keys) -> 0..MaxLangCount]} :
           keys \in KeyOrders}

DistributionTotal(dist) == Sum([i \in 1..Len(dist) |-> dist[i].count])

\* a snapshot whose detections all are in the highest confidence range
Snapshot(dist) ==
    [total_detections |-> DistributionTotal(dist),
     avg_confidence |-> IF DistributionTotal(dist) > 0 THEN 925 ELSE 0,
     language_distribution |-> dist,
     confidence_distribution |-> <<DistributionTotal(dist), 0, 0, 0, 0>>]

StatsInit ==
    /\ Untouched
    /\ clock = ClockBase + PageHour
    /\ tz = PageTz
    /\ arg \in {Snapshot(dist) : dist \in Distributions}

DisplayStatistics ==
    /\ result = NoResult
    /\ result' = displayStatistics(arg)
    /\ UNCHANGED <<histVars, arg, app>>

SpecStats == StatsInit /\ [][DisplayStatistics]_vars

(* the success rate of a snapshot: lines 440-448.  total_detections and *)
(* the buckets are chosen apart, so they need not add up                *)

Buckets(n, first, fourth, fifth) ==
    [i \in 1..n |->
        IF i = 1 THEN first
        ELSE IF i = 4 THEN fourth
        ELSE IF i = 5 THEN fifth
        ELSE 0]

ScenarioBuckets == <<10, 5, 3, 2, 1>>

ConfidenceDistributions ==
    {Buckets(n, first, fourth, fifth) :
        n \in 0..MaxBuckets, first \in 0..MaxHighCount,
        fourth \in 0..MaxLowCount, fifth \in 0..MaxLowCount}
    \cup {ScenarioBuckets}

RateSnapshot(buckets, total) ==
    [total_detections |-> total,
     avg_confidence |-> 0,
     language_distribution |-> <<>>,
     confidence_distribution |-> buckets]

RateInit ==
    /\ Untouched
    /\ clock = ClockBase + PageHour
    /\ tz = PageTz
    /\ arg \in {RateSnapshot(buckets, total) :
                    buckets \in ConfidenceDistributions,
                    total \in 0..MaxRateTotal}

SpecRate == RateInit /\ [][DisplayStatistics]_vars

(* the activity chart of a recent_activity list: lines 562-602.  The    *)
(* backend groups by date and language, so no two tuples share both;    *)
(* the paging buttons of the history page play no part                  *)

ActivityLanguages == {Str_English, Str_Hindi, Str_Unknown}

ActivityTuples ==
    {[created_at__date |-> ClockBase \div 24 - age,
      detected_language |-> language, count |-> count] :
        age \in 1..MaxActivityDates, language \in ActivityLanguages,
        count \in 1..MaxActivityCount}

ActivityLists ==
    {items \in UNION {[1..n -> ActivityTuples] : n \in 0..MaxActivity} :
        \A i, j \in 1..Len(items) :
            (/\ items[i].created_at__date = items[j].created_at__date
             /\ items[i].detected_language = items[j].detected_language)
                => i = j}

ActivityInit ==
    /\ Untouched
    /\ clock = ClockBase + PageHour
    /\ tz = PageTz
    /\ prevDisabled
    /\ nextDisabled
    /\ arg \in ActivityLists

CreateActivityChart ==
    /\ result = NoResult
    /\ result' = createActivityChart(arg)
    /\ UNCHANGED <<histVars, arg, app>>

SpecActivity == ActivityInit /\ [][CreateActivityChart]_vars

(* the badge of a language value: lines 222-246 *)

UpperChar(c) ==
    CASE c = "h" -> "H"
      [] c = "e" -> "E"
      [] c = "i" -> "I"
      [] c = "n" -> "N"
      [] c = "d" -> "D"
      [] c = "g" -> "G"
      [] c = "l" -> "L"
      [] c = "s" -> "S"
      [] OTHER -> c

\* a word in every mix of upper and lower case
CaseVariants(word) ==
    {[i \in 1..Len(word) |-> IF upper[i] THEN UpperChar(word[i]) ELSE word[i]] :
        upper \in [1..Len(word) -> BOOLEAN]}

LanguageValues ==
    {String(chars) :
        chars \in CaseVariants(Str_hindi) \cup CaseVariants(Str_english)
                      \cup CaseVariants(Str_hinglish)
                      \cup {Str_Unknown, <<>>, Str_hindi \o <<" ">>}}
        \cup {Undefined, Null}

BadgeInit ==
    /\ Untouched
    /\ clock = ClockBase + PageHour
    /\ tz = PageTz
    /\ prevDisabled
    /\ nextDisabled
    /\ arg \in LanguageValues

LanguageStyle ==
    /\ result = NoResult
    /\ result' = languageStyle(arg)
    /\ UNCHANGED <<histVars, arg, app>>

SpecBadge == BadgeInit /\ [][LanguageStyle]_vars

-----------------------------------------------------------------------------
(* LanguageDetectionApp (src/unnamed/part_000): the detection page.  app  *)
(* holds the text of #input-text, the state of #detect-btn, the spinner,  *)
(* the error and results sections, the pending hideError timers, the      *)
(* POST requests in flight and a record of the last detectLanguage call.  *)

PleaseEnterText == "Please enter some text to analyze."
DetectionFailed == "Detection failed. Please try again."
DetectNetworkError ==
    "Network error. Please check your connection and try again."

\* lines 244-255
appShowError(a, message) ==
    [a EXCEPT !.errorMessage = message, !.errorVisible = TRUE,
              !.timers = @ + 1]

\* lines 257-260
appHideError(a) == [a EXCEPT !.errorVisible = FALSE]

\* lines 239-242
appHideResults(a) == [a EXCEPT !.resultsVisible = FALSE]

\* lines 221-237
setLoadingState(a, isLoading) ==
    [a EXCEPT !.detectDisabled = isLoading, !.loading = isLoading]

\* lines 87-99
toggleDetectButton(a) ==
    [a EXCEPT !.detectDisabled = ~(Len(trim(a.inputText)) > 0)]

\* variant: the text is sent whatever it is
detectLanguageUnchecked(a) ==
    LET inputText == trim(a.inputText)
        sent == appHideError(appHideResults(setLoadingState(a, TRUE)))
    IN  [sent EXCEPT !.posts = @ + 1,
                     !.inflight = @ \cup {[id |-> a.posts + 1,
                                           text |-> inputText]},
                     !.calls = @ + 1,
                     !.last = [kind |-> "sent", text |-> a.inputText]]

\* lines 101-117: detectLanguage up to the await of fetch
detectLanguage(a) ==
    LET inputText == trim(a.inputText) IN
    IF inputText = <<>>
    THEN [appShowError(a, PleaseEnterText) EXCEPT
             !.calls = @ + 1,
             !.last = [kind |-> "rejected", text |-> a.inputText]]
    ELSE LET sent == appHideError(appHideResults(setLoadingState(a, TRUE)))
         IN  [sent EXCEPT !.posts = @ + 1,
                          !.inflight = @ \cup {[id |-> a.posts + 1,
                                                text |-> inputText]},
                          !.calls = @ + 1,
                          !.last = [kind |-> "sent", text |-> a.inputText]]

\* how the POST ends: fetch or json() rejects, or an envelope
DetectAnswers ==
    {[kind |-> "rejected"],
     [kind |-> "envelope", success |-> TRUE],
     [kind |-> "envelope", success |-> FALSE, error |-> "Text too long"],
     [kind |-> "envelope", success |-> FALSE]}

\* lines 119-134: detectLanguage resumed with the answer
detectLanguageResume(a, req, answer) ==
    LET done ==
            IF answer.kind = "rejected"
            THEN appShowError(a, DetectNetworkError)
            ELSE IF answer.success
            THEN [a EXCEPT !.resultsVisible = TRUE]
            ELSE appShowError(a, IF Has(answer, "error") THEN answer.error
                                 ELSE DetectionFailed)
    IN  [setLoadingState(done, FALSE) EXCEPT !.inflight = @ \ {req}]

\* lines 262-270
clearInput(a) ==
    appHideError(appHideResults(toggleDetectButton(
        [a EXCEPT !.inputText = <<>>])))

DetectTexts == {<<>>, <<" ">>, <<"\t", "\n">>, <<" ", "a", " ">>, <<"a">>}

\* lines 6-16; init does not call toggleDetectButton, so #detect-btn is as
\* the page's markup has it
LanguageDetectionApp ==
    app \in {[page |-> "detect", inputText |-> <<>>,
              detectDisabled |-> disabled, loading |-> FALSE,
              errorVisible |-> FALSE, errorMessage |-> "",
              resultsVisible |-> FALSE, timers |-> 0, posts |-> 0,
              inflight |-> {}, calls |-> 0, last |-> [kind |-> "none"]] :
                 disabled \in BOOLEAN}

AppStep(a) == app' = a /\ UNCHANGED <<histVars, arg, result>>

\* lines 25-28: the user edits the text
InputText(text) ==
    /\ app.inputText # text
    /\ AppStep(toggleDetectButton([app EXCEPT !.inputText = text]))

\* lines 30-32: a click on #detect-btn, which a disabled button does not get
DetectClick ==
    /\ ~app.detectDisabled
    /\ app.calls < MaxDetectCalls
    /\ AppStep(detectLanguage(app))

\* lines 60-63: Ctrl+Enter
DetectShortcut ==
    /\ app.calls < MaxDetectCalls
    /\ AppStep(detectLanguage(app))

\* lines 34-36 and 64-66: a click on #clear-btn, or Escape
ClearInput ==
    /\ app.page = "detect"
    /\ AppStep(clearInput(app))

DetectSettle(req, answer) ==
    /\ req \in app.inflight
    /\ AppStep(detectLanguageResume(app, req, answer))

\* lines 252-254: a timer set by showError fires
HideErrorTimer ==
    /\ app.timers > 0
    /\ AppStep([appHideError(app) EXCEPT !.timers = @ - 1])

DetectInit ==
    /\ HistoryManager
    /\ prevDisabled
    /\ nextDisabled
    /\ budget = 0
    /\ shapes = {}
    /\ serverCount = 0
    /\ clock = ClockBase + PageHour
    /\ tz = PageTz
    /\ arg = NoResult
    /\ result = NoResult
    /\ LanguageDetectionApp

DetectNext ==
    \/ \E text \in DetectTexts : InputText(text)
    \/ DetectClick
    \/ DetectShortcut
    \/ ClearInput
    \/ \E req \in app.inflight : \E answer \in DetectAnswers :
           DetectSettle(req, answer)
    \/ HideErrorTimer

SpecDetect == DetectInit /\ [][DetectNext]_vars

-----------------------------------------------------------------------------
(* Properties of the history page *)

RenderedRows(dets) ==
    RowsBody([i \in 1..Len(dets.items) |-> renderRow(dets.items[i])])

\* C1: reloads that overlap are neither queued nor cancelled; the answer
\* that settles last is the one applied.  Whenever the call that finished
\* last applied a success envelope, the cached detections, the rendered
\* table and totalPages are those of that envelope, whichever request was
\* issued first.
C1_LastSettledWins ==
    (lastSettled.id # 0 /\ lastSettled.outcome = "applied") =>
        LET data == lastSettled.settlement.envelope.data IN
        /\ IsArray(data.detections)
        /\ detections = data.detections
        /\ tableBody = RenderedRows(data.detections)
        /\ totalPages = data.pagination.total_pages

\* C1: both of two overlapping reloads have settled, the older request
\* settled last, and the page data applied is the one of the older request,
\* not the one currentPage/currentFilters name
C1_StaleApplied ==
    /\ inflight = {}
    /\ issued >= 2
    /\ lastSettled.id # 0
    /\ lastSettled.id < issued
    /\ lastSettled.outcome = "applied"
    /\ lastAction.kind # "construct"
    /\ lastAction.inflightBefore > 0
    /\ <<lastSettled.page, lastSettled.filters>>
           # <<currentPage, currentFilters>>
    /\ detections = ServerDetections(lastSettled.page, lastSettled.filters,
                                     "rows")

Issues == issued' = issued + 1 /\ inflight' # inflight
Settles == \E req \in inflight : req \notin inflight'

\* C2: starting a reload shows the loading indicator, and whichever way
\* its answer settles (success envelope, success:false envelope, fetch
\* rejection, body that is not JSON, exception while the answer is
\* applied) the indicator is hidden again
C2_LoadingThenIdle ==
    [][(Issues => loadingVisible') /\ (Settles => ~loadingVisible')]_vars

\* C2: an answer threw while it was applied, and the indicator is hidden
C2_Witness ==
    /\ lastSettled.id # 0
    /\ lastSettled.outcome = "exception"
    /\ inflight = {}
    /\ ~loadingVisible
    /\ tableBody = ErrorBody(NetworkError)

HasNonSpace(s) == \E i \in 1..Len(s) : ~IsSpace(s[i])

ExpectedKeys(l, s) ==
    (IF l # <<>> THEN {"language"} ELSE {})
        \cup (IF HasNonSpace(s) THEN {"search"} ELSE {})

\* C3: applyFilters replaces FilterState by exactly the inputs that are not
\* empty (language as typed, search trimmed), sets currentPage to 1 and
\* issues exactly one reload, for page 1 with those filters
C3_ApplyFilters ==
    [][\A l \in LanguageInputs, s \in SearchInputs :
          SeqApplyFilters(l, s) =>
              /\ DOMAIN currentFilters' = ExpectedKeys(l, s)
              /\ l # <<>> => currentFilters'["language"] = l
              /\ HasNonSpace(s) =>
                     /\ currentFilters'["search"] = trim(s)
                     /\ ~IsSpace(Head(currentFilters'["search"]))
                     /\ ~IsSpace(currentFilters'["search"]
                                     [Len(currentFilters'["search"])])
              /\ currentPage' = 1
              /\ issued' = issued + 1
              /\ inflight' = inflight \cup
                     {[id |-> issued + 1, page |-> 1, per_page |-> perPage,
                       filters |-> currentFilters']}]_vars

\* C3: applyFilters with both inputs empty ran on page 2 or later with a
\* language filter set: the filter is empty and the page is 1
C3_Witness ==
    /\ lastAction.kind = "applyFilters"
    /\ lastAction.pageBefore > 1
    /\ "language" \in DOMAIN lastAction.filtersBefore
    /\ currentFilters = EmptyFilters
    /\ currentPage = 1
    /\ lastIssued = [id |-> issued, page |-> 1, filters |-> EmptyFilters]
    /\ issued = lastAction.issuedBefore + 1

UserActed ==
    /\ lastAction.kind \in {"applyFilters", "prevPage", "nextPage"}
    /\ lastAction.acted

\* C4 as stated: applyFilters, nextPage and prevPage change FilterState or
\* currentPage, or issue a reload, only when no reload is in flight
C4_OnlyFromIdle == UserActed => lastAction.inflightBefore = 0

\* C4 amended: no user action is guarded by the loading state.  While a
\* reload is in flight applyFilters can still run, and so can the click
\* handlers of enabled paging buttons, with the effect they have from Idle
\* (up to the number of reloads a behaviour of the model makes)
C4_ActsWhileLoading ==
    (inflight # {} /\ issued < budget) =>
        /\ \A l \in LanguageInputs, s \in SearchInputs :
               ENABLED (/\ ApplyFilters(l, s)
                        /\ currentPage' = 1
                        /\ issued' = issued + 1)
        /\ (~nextDisabled /\ nextPageGuard) =>
               ENABLED (/\ NextPageClick
                        /\ currentPage' = currentPage + 1
                        /\ issued' = issued + 1)
        /\ (~prevDisabled /\ prevPageGuard) =>
               ENABLED (/\ PrevPageClick
                        /\ currentPage' = currentPage - 1
                        /\ issued' = issued + 1)

\* C4: on page 2 of 3, applyFilters ran while a reload was in flight, and
\* two reloads are in flight now
C4_Witness ==
    /\ lastAction.kind = "applyFilters"
    /\ lastAction.inflightBefore = 1
    /\ lastAction.pageBefore = 2
    /\ Cardinality(inflight) = 2
    /\ currentPage = 1
    /\ lastIssued.id = issued

HasNext == lastPagination # NoPagination /\ lastPagination.has_next
HasPrevious == lastPagination # NoPagination /\ lastPagination.has_previous

PagingChanged ==
    currentPage' # currentPage \/ issued' # issued \/ inflight' # inflight

\* a click changes currentPage by exactly one and issues exactly one reload,
\* for the new page, and does so only when the pagination shown says there
\* is such a page; otherwise it changes nothing and issues nothing
C5_Step ==
    /\ SeqNextPageClick =>
           (PagingChanged =>
               /\ HasNext
               /\ currentPage' = currentPage + 1
               /\ issued' = issued + 1
               /\ inflight' = inflight \cup
                      {[id |-> issued + 1, page |-> currentPage + 1,
                        per_page |-> perPage, filters |-> currentFilters]})
    /\ SeqPrevPageClick =>
           (PagingChanged =>
               /\ HasPrevious
               /\ currentPage' = currentPage - 1
               /\ issued' = issued + 1
               /\ inflight' = inflight \cup
                      {[id |-> issued + 1, page |-> currentPage - 1,
                        per_page |-> perPage, filters |-> currentFilters]})

\* the number of pages the backend has
PageCount == CeilDiv(serverCount, perPage)

\* after nextCalls clicks on #next-page from page 1 of PageCount pages, each
\* made once the previous answer was applied, the page is 1 + nextCalls,
\* but never beyond the last page, and has_next is false exactly there
C5_Run ==
    (Idle /\ nextCalls # Void) =>
        /\ currentPage = Min(1 + nextCalls, Max(PageCount, 1))
        /\ lastPagination # NoPagination
        /\ lastPagination.has_next = (currentPage < PageCount)
        /\ (serverCount = 45 /\ nextCalls >= 2) =>
               (currentPage = 3 /\ ~lastPagination.has_next)

\* C5: nextPage and prevPage move by exactly one page and reload only when
\* has_next / has_previous is true, and are no-ops otherwise; from page 1 of
\* N pages, N-1 nextPage calls reach page N with has_next false, and
\* further calls stay there (20 per page, 45 rows: two calls reach page 3)
C5_Paging == [][C5_Step]_vars /\ []C5_Run

\* C5: 45 rows, 20 per page; after three nextPage calls the page is 3
C5_Witness ==
    /\ Idle
    /\ serverCount = 45
    /\ nextCalls = 3
    /\ currentPage = 3
    /\ totalPages = 3
    /\ ~lastPagination.has_next
    /\ nextDisabled

\* C6 as stated, for the history request: when the answer is
\* {success:false, error: msg}, the message shown is msg
C6_ErrorVerbatim ==
    (lastSettled.id # 0 /\ lastSettled.outcome = "failure_envelope") =>
        tableBody = ErrorBody(lastSettled.settlement.envelope.error)

WellFormed(d) == Has(d, "detected_language") /\ Has(d, "confidence")

Remainder(dets) == Array(SelectSeq(dets.items, WellFormed))

\* C7 as stated: when a success envelope holds a record without
\* detected_language or confidence, that record is dropped, the other
\* records are rendered, the pagination is applied and the daily counts are
\* those of the other records; the load is not an error
C7_MalformedDropped ==
    (/\ lastSettled.id # 0
     /\ ~lastSettled.settlement.rejected
     /\ lastSettled.settlement.envelope.success
     /\ IsArray(lastSettled.settlement.envelope.data.detections)
     /\ \E i \in 1..Len(lastSettled.settlement.envelope.data.detections.items) :
           ~WellFormed(lastSettled.settlement.envelope.data.detections.items[i]))
    =>
        LET data == lastSettled.settlement.envelope.data
            rest == Remainder(data.detections)
        IN  /\ lastSettled.outcome = "applied"
            /\ tableBody = RenderedRows(rest)
            /\ lastPagination = data.pagination
            /\ totalPages = data.pagination.total_pages
            /\ dailyChart = chartData(rest.items, clock)

-----------------------------------------------------------------------------
(* Properties of the functions applied on their own *)

\* C8 as stated: a text of at most 100 characters is its own preview and
\* is not marked truncated; the preview of a longer text has exactly 100
\* characters and is marked truncated
C8_PreviewLength ==
    result # NoResult =>
        IF Len(arg) <= 100
        THEN result.preview = arg /\ ~result.truncated
        ELSE Len(result.preview) = 100 /\ result.truncated

\* C8 amended: a text of at most 100 characters is its own preview and is
\* not marked truncated; the preview of a longer text is its first 100
\* characters followed by "...", 103 characters, and is marked truncated
C8_Preview ==
    result # NoResult =>
        IF Len(arg) <= 100
        THEN result.preview = arg /\ ~result.truncated
        ELSE /\ Len(result.preview) = 103
             /\ \A i \in 1..100 : result.preview[i] = arg[i]
             /\ \A i \in 1..3 : result.preview[100 + i] = "."
             /\ result.truncated

\* C8: a text of 101 characters was previewed
C8_Witness ==
    /\ result # NoResult
    /\ Len(arg) = 101
    /\ Len(result.preview) = 103
    /\ result.truncated

InWindow(t) ==
    /\ LocalDay(t) <= LocalDay(clock)
    /\ LocalDay(t) > LocalDay(clock) - 7

\* C9 as stated: the chart has 7 buckets, for the 7 consecutive calendar
\* days that end at the client's local today, oldest first; the count of a
\* bucket is the number of records created on that day, and records from
\* outside the 7 days are left out
C9_LocalDayBuckets ==
    result # NoResult =>
        /\ Len(result) = 7
        /\ \A k \in 1..7 :
              /\ result[k].date = LocalDay(clock) - (7 - k)
              /\ result[k].count =
                     Cardinality({i \in 1..Len(arg.items) :
                         LocalDay(arg.items[i].created_at) = result[k].date})
        /\ Sum([k \in 1..7 |-> result[k].count]) =
               Cardinality({i \in 1..Len(arg.items) :
                               InWindow(arg.items[i].created_at)})

TopCount(dist) ==
    CHOOSE m \in {dist[i].count : i \in 1..Len(dist)} :
        \A i \in 1..Len(dist) : dist[i].count <= m

FirstWithTopCount(dist) ==
    CHOOSE i \in 1..Len(dist) :
        /\ dist[i].count = TopCount(dist)
        /\ \A j \in 1..(i - 1) : dist[j].count < TopCount(dist)

\* C10 as stated: the card shows the key with the highest count, the first
\* of them in iteration order when several have it, and "-" for an empty
\* distribution
C10_HighestCount ==
    result # NoResult =>
        LET dist == arg.language_distribution IN
        result.most_detected =
            IF dist = <<>> THEN Dash ELSE dist[FirstWithTopCount(dist)].lang

\* C10 amended: the card shows the key with the highest count when that
\* count is positive, the first of them in iteration order when several
\* have it; it shows "-" for an empty distribution and for one whose
\* counts all are 0
C10_MostDetected ==
    result # NoResult =>
        LET dist == arg.language_distribution IN
        result.most_detected =
            IF dist = <<>> \/ TopCount(dist) = 0 THEN Dash
            ELSE dist[FirstWithTopCount(dist)].lang

\* C10: three keys, the last two tie for the highest count, the card shows
\* the earlier of the two
C10_Witness ==
    /\ result # NoResult
    /\ Len(arg.language_distribution) = 3
    /\ arg.language_distribution[1].count = 1
    /\ arg.language_distribution[2].count = 2
    /\ arg.language_distribution[3].count = 2
    /\ result.most_detected = arg.language_distribution[2].lang

FirstBuckets(buckets, k) == SubSeq(buckets, 1, Min(k, Len(buckets)))

\* the snapshot with one detection less in its first bucket
OneLess(stats) ==
    [stats EXCEPT !.confidence_distribution[1] = @ - 1]

\* C11 as stated: the success rate is round(100 * S / total), S the sum of
\* the first 4 buckets (of all of them when there are fewer), and 0 when
\* total is 0; with total fixed it does not fall when S grows
C11_SuccessRate ==
    result # NoResult =>
        LET S == Sum(FirstBuckets(arg.confidence_distribution, 4))
            total == arg.total_detections
        IN  /\ result.success_rate =
                   IF total = 0 THEN 0 ELSE RoundDiv(100 * S, total)
            /\ (arg.confidence_distribution # <<>>
                    /\ arg.confidence_distribution[1] > 0) =>
                   successRate(OneLess(arg)) <= result.success_rate

\* C12 as stated: the success rate of every snapshot with counts and total
\* that are not negative is in [0, 100], also when the counts do not add
\* up to the total
C12_RateInRange ==
    result # NoResult =>
        result.success_rate >= 0 /\ result.success_rate <= 100

\* C16 as stated: only the detections of the buckets 90-100%, 80-89% and
\* 70-79% count for the success rate; the rate shown is the one of the
\* snapshot without its buckets below 70%
C16_AboveSeventy ==
    result # NoResult =>
        result.success_rate =
            successRate([arg EXCEPT !.confidence_distribution =
                            FirstBuckets(arg.confidence_distribution, 3)])

FirstIndex(items, date) ==
    CHOOSE i \in 1..Len(items) :
        /\ items[i].created_at__date = date
        /\ \A j \in 1..(i - 1) : items[j].created_at__date # date

DatesOf(items) == {items[i].created_at__date : i \in 1..Len(items)}

\* one row per distinct date, in the order the dates first occur
OneRowPerDate ==
    /\ Len(result.labels) = Cardinality(DatesOf(arg))
    /\ \A k \in 1..Len(result.labels) : result.labels[k] \in DatesOf(arg)
    /\ \A k, n \in 1..Len(result.labels) :
           k < n => FirstIndex(arg, result.labels[k])
                        < FirstIndex(arg, result.labels[n])
    /\ \A k \in 1..Len(result.days) : result.days[k].date = result.labels[k]

GivenCount(items, date, language) ==
    IF \E i \in 1..Len(items) : /\ items[i].created_at__date = date
                                /\ items[i].detected_language = language
    THEN LET i == CHOOSE i \in 1..Len(items) :
                      /\ items[i].created_at__date = date
                      /\ items[i].detected_language = language
         IN  items[i].count
    ELSE 0

\* the three series hold the count given for the date and the language, 0
\* when there is none
SeriesCounts ==
    \A k \in 1..Len(result.labels) :
        /\ result.English[k] = GivenCount(arg, result.labels[k], Str_English)
        /\ result.Hindi[k] = GivenCount(arg, result.labels[k], Str_Hindi)
        /\ result.Hinglish[k] =
               GivenCount(arg, result.labels[k], Str_Hinglish)
        /\ \A language \in ChartedLanguages :
               result.days[k].row[language] =
                   GivenCount(arg, result.labels[k], language)

LanguagesOn(items, date) ==
    {items[i].detected_language :
        i \in {j \in 1..Len(items) : items[j].created_at__date = date}}

\* C13 as stated: one row per distinct date, in the order of first
\* occurrence; every row has exactly the keys English, Hindi and Hinglish
\* whatever languages occur, each with the count given or 0
C13_ThreeKeys ==
    result # NoResult =>
        /\ OneRowPerDate
        /\ SeriesCounts
        /\ \A k \in 1..Len(result.days) :
               DOMAIN result.days[k].row = ChartedLanguages

\* C13 amended: one row per distinct date, in the order of first
\* occurrence; every row has the keys English, Hindi and Hinglish, each
\* with the count given or 0, and these are the three series charted; a
\* tuple with another language adds a key of that name, with its count, to
\* the row of its date, which no series reads
C13_DailySeries ==
    result # NoResult =>
        /\ OneRowPerDate
        /\ SeriesCounts
        /\ \A k \in 1..Len(result.days) :
               /\ DOMAIN result.days[k].row =
                      ChartedLanguages \cup LanguagesOn(arg, result.labels[k])
               /\ \A language \in LanguagesOn(arg, result.labels[k]) :
                      result.days[k].row[language] =
                          GivenCount(arg, result.labels[k], language)

\* C13: three tuples, the first and the last of the same date, one of them
\* for Unknown: two rows, the first with four keys
C13_Witness ==
    /\ result # NoResult
    /\ Len(arg) = 3
    /\ arg[1].created_at__date = arg[3].created_at__date
    /\ arg[2].created_at__date # arg[1].created_at__date
    /\ arg[3].detected_language = Str_Unknown
    /\ result.labels = <<arg[1].created_at__date, arg[2].created_at__date>>
    /\ Cardinality(DOMAIN result.days[1].row) = 4

SameIgnoringCase(value, word) ==
    /\ value.type = "string"
    /\ Len(value.chars) = Len(word)
    /\ \A i \in 1..Len(word) :
           value.chars[i] \in {word[i], UpperChar(word[i])}

StyleOf(value) ==
    CASE SameIgnoringCase(value, Str_hindi) -> "hindi"
      [] SameIgnoringCase(value, Str_english) -> "english"
      [] SameIgnoringCase(value, Str_hinglish) -> "hinglish"
      [] OTHER -> "unknown"

BadgeOf(style) ==
    CASE style = "hindi" -> "from-orange-500 to-red-500"
      [] style = "english" -> "from-blue-500 to-blue-600"
      [] style = "hinglish" -> "from-green-500 to-emerald-500"
      [] OTHER -> "from-gray-500 to-gray-600"

IconOf(style) ==
    CASE style = "hindi" -> "fa-om"
      [] style = "english" -> "fa-english"
      [] style = "hinglish" -> "fa-globe"
      [] OTHER -> "fa-question"

\* C14 as stated: the badge style of a language value never fails; Hindi,
\* English and Hinglish in any mix of upper and lower case get their own
\* style, every other value, an absent one included, the fallback style
C14_BadgeTotal ==
    result # NoResult =>
        /\ result.threw = "nothing"
        /\ result.badge = BadgeOf(StyleOf(arg))
        /\ result.icon = IconOf(StyleOf(arg))

-----------------------------------------------------------------------------
(* Invariants and frame conditions of the history page *)

\* C17 as stated: in every reachable state 1 <= currentPage <=
\* max(1, totalPages), totalPages being the value of the response applied
\* last
C17_PageInRange ==
    /\ currentPage >= 1
    /\ currentPage <= Max(1, totalPages)

FailedOutcomes == {"failure_envelope", "fetch_rejected", "non_json"}

\* C18: a reload that fails (success:false envelope, fetch rejection, body
\* that is not JSON) shows an error and leaves the cached detections,
\* totalPages and the enablement of both paging buttons as they were; it
\* does not roll back currentPage or currentFilters
C18_FailedReloadFrame ==
    [][(Settles /\ lastSettled'.outcome \in FailedOutcomes) =>
          /\ detections' = detections
          /\ totalPages' = totalPages
          /\ prevDisabled' = prevDisabled
          /\ nextDisabled' = nextDisabled
          /\ currentPage' = currentPage
          /\ currentFilters' = currentFilters
          /\ tableBody'.kind = "error"]_vars

\* C18: the reload of a next-page click failed: currentPage names the page
\* after the one whose data and pagination are the ones applied last
C18_Witness ==
    /\ lastAction.kind = "nextPage"
    /\ lastAction.acted
    /\ inflight = {}
    /\ lastSettled.id = issued
    /\ lastSettled.outcome \in FailedOutcomes
    /\ currentPage = lastAction.pageBefore + 1
    /\ lastPagination # NoPagination
    /\ lastPagination.current_page = lastAction.pageBefore
    /\ detections = ServerDetections(lastAction.pageBefore, currentFilters,
                                     "rows")
    /\ tableBody.kind = "error"

\* C19 as stated: in every reachable state the loading indicator is visible
\* exactly when a history request is in flight, also when reloads overlap
C19_LoadingIffInFlight == loadingVisible <=> inflight # {}

-----------------------------------------------------------------------------
(* Properties of the detection page *)

\* C15: a call of detectLanguage with an input that is empty or white space
\* only shows the error message, issues no POST and leaves the loading
\* state (spinner, button) as it was
C15_EmptyInputRejected ==
    [][(app'.calls = app.calls + 1 /\ ~HasNonSpace(app.inputText)) =>
          /\ app'.errorVisible
          /\ app'.errorMessage = PleaseEnterText
          /\ app'.posts = app.posts
          /\ app'.inflight = app.inflight
          /\ app'.loading = app.loading
          /\ app'.detectDisabled = app.detectDisabled
          /\ app'.last.kind = "rejected"]_vars

\* C15: detectLanguage was called with an input of white space only, by
\* the shortcut while the button was disabled; the error is shown, nothing
\* was ever sent and the page is not loading
C15_Witness ==
    /\ app.calls > 0
    /\ app.last.kind = "rejected"
    /\ app.last.text # <<>>
    /\ app.inputText = app.last.text
    /\ app.detectDisabled
    /\ app.errorVisible
    /\ app.errorMessage = PleaseEnterText
    /\ app.posts = 0
    /\ ~app.loading

====
